---- MODULE Spec2Model ----
(***************************************************************************)
(* Model of src/src/create-pull-request.py: one invocation of the script   *)
(* is a linear workflow (base resolution, self-reference guard, branch     *)
(* name resolution, collision policy, checkout, change detection, publish  *)
(* step).  The local working tree, the remote's branches and the hosting   *)
(* API are the environment: their answers are nondeterministic choices.    *)
(*                                                                         *)
(* Branch names are sequences of one-character strings.  The branch prefix *)
(* and the suffix strategy are fixed when a run starts; the other inputs   *)
(* are drawn in the step that reads them.  The git commands and the        *)
(* pull-request calls of a run are recorded in calls; a metadata step      *)
(* shows in pc and, when it raises, in raised.  origin's refs are taken to *)
(* mirror the remote's branches (a fetched checkout).                      *)
(***************************************************************************)
EXTENDS Integers, Sequences, FiniteSets, TLC

VARIABLES pc, run, remoteRefs, prev, dirty, untracked, fork_pr, base_source,
          base, branch_prefix, branch_suffix, head, branch, remote_exists,
          calls, pull_request, raised, exit_code, message

vars == <<pc, run, remoteRefs, prev, dirty, untracked, fork_pr, base_source,
          base, branch_prefix, branch_suffix, head, branch, remote_exists,
          calls, pull_request, raised, exit_code, message>>

(* ------------------------------ bounds --------------------------------- *)
MaxLen == 2

Chars == {"a", "-"}
Names(n) == UNION {[1..k -> Chars] : k \in 0..n}
\* the names a base branch can have (git has no branch of the empty name)
BaseNames == Names(MaxLen) \ {<<>>}
\* values of PULL_REQUEST_BRANCH: empty, and with and without a trailing dash
Prefixes == {<<>>, <<"a">>, <<"a", "-">>}
\* abstract values of a short SHA1, a Unix time and a random string
Suffixes == {<<"a">>, <<"a", "a">>}
\* the files the workflow may have left untracked in the working tree
Files == {"new.txt"}
\* the claims speak of a first and a second run
Runs == {1, 2}

None == "None"
\* an optional value: unset, or one value
Unset == <<>>
Some(v) == <<v>>
NoRun == [prefix |-> <<>>, head |-> <<>>, branch |-> <<>>]

(* ----------------------------- constants ------------------------------- *)
RefsPull == <<"r", "e", "f", "s", "/", "p", "u", "l", "l", "/">>
RefsHeads == <<"r", "e", "f", "s", "/", "h", "e", "a", "d", "s", "/">>
RefsTags == <<"r", "e", "f", "s", "/", "t", "a", "g", "s", "/">>
RefsHeadsLen == 11
Unprocessable == 422
\* a GithubException of any other status
OtherStatuses == {403}
\* no exception raised
Success == {0}
github_repository == "owner/repo"
PullRef == RefsPull \o <<"1">>
TagRef == RefsTags \o <<"a">>
\* a trigger: GITHUB_REF, the event's head repository, GITHUB_HEAD_REF
Trigger(ref, repo, head_ref) == [github_ref |-> ref, head_repo |-> repo, head_ref |-> head_ref]
PushTriggers == {Trigger(RefsHeads \o n, "owner/repo", <<>>) : n \in BaseNames}
PullTriggers == {Trigger(PullRef, "owner/repo", h) : h \in BaseNames}
ForkTrigger == Trigger(PullRef, "fork/repo", <<"a">>)
TagTrigger == Trigger(TagRef, "owner/repo", <<>>)
Triggers == PushTriggers \cup PullTriggers \cup {ForkTrigger, TagTrigger}
\* with PULL_REQUEST_BASE set the branch names of the trigger are never read:
\* one trigger of each kind stands for the others
TriggerKinds == {Trigger(RefsHeads \o <<"a">>, "owner/repo", <<>>),
                 Trigger(PullRef, "owner/repo", <<"a">>), ForkTrigger, TagTrigger}
Inputs == {<<Unset, t>> : t \in Triggers}
          \cup {<<Some(b), t>> : b \in BaseNames, t \in TriggerKinds}
SuffixStrategies == {"short-commit-hash", "timestamp", "random", "none", "bogus"}
Statuses == {Unprocessable} \cup OtherStatuses
ApiResults == Success \cup Statuses
NoError == [by |-> None, status |-> 0]

(* ------------------------------ helpers -------------------------------- *)
\* str.startswith
StartsWith(s, p) == Len(p) <= Len(s) /\ SubSeq(s, 1, Len(p)) = p

\* "%s-%s" % (branch_prefix, suffix)
FormatBranch(prefix, suffix) == prefix \o <<"-">> \o suffix

\* github_ref[11:]
StripRefsHeads(ref) == SubSeq(ref, RefsHeadsLen + 1, Len(ref))

\* one external call: a git command or a hosting-API request
Call(op, b, onto) == [op |-> op, branch |-> b, base |-> onto]
Git(op) == Call(op, <<>>, <<>>)

Ops(cs) == {cs[i].op : i \in 1..Len(cs)}
Count(cs, op) == Cardinality({i \in 1..Len(cs) : cs[i].op = op})

\* remote_branch_exists
RemoteBranchExists(refs, b) == b \in refs

\* checkout_branch: the set of its possible outcomes on a working tree (d, u)
CheckoutBranch(remote, b, d, u) ==
  IF remote
  THEN LET stashed == <<Git("stash"), Call("checkout", b, <<>>)>>
           popped == stashed \o <<Git("stash_pop")>>
           recovered == popped \o <<Git("checkout_theirs"), Git("reset")>>
       IN  \* git checkout raises
           {[ok |-> FALSE, calls |-> stashed, dirty |-> FALSE, untracked |-> {}]}
           \cup
           \* the stash is restored
           {[ok |-> TRUE, calls |-> popped, dirty |-> d, untracked |-> u]}
           \cup
           \* stash pop raises: checkout --theirs and reset
           {[ok |-> TRUE, calls |-> recovered, dirty |-> d2, untracked |-> u2] :
               d2 \in (IF d \/ u # {} THEN BOOLEAN ELSE {FALSE}), u2 \in SUBSET u}
  ELSE {[ok |-> FALSE, calls |-> <<Call("checkout_b", b, <<>>)>>, dirty |-> d, untracked |-> u],
        [ok |-> TRUE, calls |-> <<Call("checkout_b", b, <<>>)>>, dirty |-> d, untracked |-> u]}

(* ------------------------------- state --------------------------------- *)
\* the state of a run before its first statement; PULL_REQUEST_BRANCH and
\* BRANCH_SUFFIX are fixed by the environment of the run
RunStart ==
  /\ pc = "start"
  /\ fork_pr = FALSE
  /\ base_source = None
  /\ base = <<>>
  /\ branch_prefix \in Prefixes
  /\ branch_suffix \in SuffixStrategies
  /\ head = <<>>
  /\ branch = <<>>
  /\ remote_exists = FALSE
  /\ calls = <<>>
  /\ pull_request = None
  /\ raised = NoError
  /\ exit_code = Unset
  /\ message = None

Init ==
  /\ RunStart
  /\ run = 1
  /\ remoteRefs = {}
  /\ prev = NoRun
  /\ dirty \in BOOLEAN
  /\ untracked \in SUBSET Files

\* sys.exit(code), or the end of the script, or an uncaught exception,
\* after printing msg
Exit(code, msg) ==
  /\ pc' = "exit"
  /\ exit_code' = Some(code)
  /\ message' = msg

Running == UNCHANGED <<exit_code, message>>

(* --------------------------- base resolution --------------------------- *)
ResolveBase(base_override, github_ref, head_repo, head_ref) ==
  LET fork == StartsWith(github_ref, RefsPull) /\ head_repo # github_repository
      viaCheckout(src, b) ==
        \E r \in CheckoutBranch(TRUE, b, dirty, untracked) :
          /\ base_source' = src
          /\ base' = b
          /\ fork_pr' = fork
          /\ calls' = calls \o r.calls
          /\ dirty' = r.dirty
          /\ untracked' = r.untracked
          /\ IF r.ok THEN pc' = "guard" /\ Running
                     ELSE Exit(1, "GitCommandError")
  IN
  IF base_override # Unset
  THEN viaCheckout("override", base_override[1])
  ELSE IF StartsWith(github_ref, RefsPull)
  THEN IF head_repo # github_repository
       THEN /\ Exit(0, "fork")
            /\ fork_pr' = TRUE
            /\ UNCHANGED <<base_source, base, calls, dirty, untracked>>
       ELSE viaCheckout("pull", head_ref)
  ELSE IF StartsWith(github_ref, RefsHeads)
  THEN /\ base_source' = "heads"
       /\ base' = StripRefsHeads(github_ref)
       /\ pc' = "guard"
       /\ Running
       /\ UNCHANGED <<fork_pr, calls, dirty, untracked>>
  ELSE /\ Exit(0, "invalid_ref")
       /\ UNCHANGED <<fork_pr, base_source, base, calls, dirty, untracked>>

BaseResolution ==
  /\ pc = "start"
  /\ \E in \in Inputs :
       ResolveBase(in[1], in[2].github_ref, in[2].head_repo, in[2].head_ref)
  /\ UNCHANGED <<run, remoteRefs, prev, branch_prefix, branch_suffix, head, branch,
                 remote_exists, pull_request, raised>>

(* ------------------------- self-reference guard ------------------------ *)
\* the guard compares for equality instead of testing the prefix
CreatedByThisActionExact(b, prefix) == b = prefix

\* base.startswith(branch_prefix)
CreatedByThisAction(b, prefix) == StartsWith(b, prefix)

SelfReferenceGuard ==
  /\ pc = "guard"
  /\ IF CreatedByThisAction(base, branch_prefix)
     THEN Exit(0, "self_reference")
     ELSE pc' = "suffix" /\ Running
  /\ UNCHANGED <<run, remoteRefs, prev, dirty, untracked, fork_pr, base_source, base,
                 branch_prefix, branch_suffix, head, branch, remote_exists, calls, pull_request, raised>>

(* ------------------------ branch name resolution ----------------------- *)
\* the final else is missing: an unknown strategy leaves the prefix as the name
ResolveBranchNoElse(strategy, sha, now, rnd) ==
  IF strategy = "short-commit-hash"
  THEN /\ head' = sha
       /\ branch' = FormatBranch(branch_prefix, sha)
       /\ pc' = "remote" /\ Running
  ELSE IF strategy = "timestamp"
  THEN /\ branch' = FormatBranch(branch_prefix, now)
       /\ pc' = "remote" /\ Running
       /\ UNCHANGED head
  ELSE IF strategy = "random"
  THEN /\ branch' = FormatBranch(branch_prefix, rnd)
       /\ pc' = "remote" /\ Running
       /\ UNCHANGED head
  ELSE /\ branch' = branch_prefix
       /\ pc' = "remote" /\ Running
       /\ UNCHANGED head

ResolveBranch(strategy, sha, now, rnd) ==
  IF strategy = "short-commit-hash"
  THEN /\ head' = sha
       /\ branch' = FormatBranch(branch_prefix, sha)
       /\ pc' = "remote" /\ Running
  ELSE IF strategy = "timestamp"
  THEN /\ branch' = FormatBranch(branch_prefix, now)
       /\ pc' = "remote" /\ Running
       /\ UNCHANGED head
  ELSE IF strategy = "random"
  THEN /\ branch' = FormatBranch(branch_prefix, rnd)
       /\ pc' = "remote" /\ Running
       /\ UNCHANGED head
  ELSE IF strategy = "none"
  THEN /\ branch' = branch_prefix
       /\ pc' = "remote" /\ Running
       /\ UNCHANGED head
  ELSE /\ Exit(1, "bad_suffix")
       /\ UNCHANGED <<head, branch>>

\* get_head_short_sha1, int(time.time()) and get_random_suffix are read here
BranchNameResolution ==
  /\ pc = "suffix"
  /\ \E suffix \in Suffixes :
       ResolveBranch(branch_suffix, suffix, suffix, suffix)
  /\ UNCHANGED <<run, remoteRefs, prev, dirty, untracked, fork_pr, base_source, base,
                 branch_prefix, branch_suffix, remote_exists, calls, pull_request, raised>>

(* --------------------------- collision policy -------------------------- *)
\* the short-commit-hash case is missing: an existing branch is only a
\* collision for the generated names, and is reused otherwise
CollisionOutcomeNoSkip(exists, strategy) ==
  IF exists /\ strategy \in {"timestamp", "random"} THEN "collision"
  ELSE "proceed"

\* what the script does once it knows whether origin/<branch> exists
CollisionOutcome(exists, strategy) ==
  IF exists /\ strategy = "short-commit-hash" THEN "skip"
  ELSE IF exists /\ strategy \in {"timestamp", "random"} THEN "collision"
  ELSE "proceed"

CollisionPolicy ==
  /\ pc = "remote"
  /\ remote_exists' = RemoteBranchExists(remoteRefs, branch)
  /\ LET outcome == CollisionOutcome(remote_exists', branch_suffix)
     IN  IF outcome = "skip" THEN Exit(0, "exists_for_commit")
         ELSE IF outcome = "collision" THEN Exit(1, "collision")
         ELSE pc' = "checkout" /\ Running
  /\ UNCHANGED <<run, remoteRefs, prev, dirty, untracked, fork_pr, base_source, base,
                 branch_prefix, branch_suffix, head, branch, calls, pull_request, raised>>

(* ------------------------------ checkout ------------------------------- *)
CheckoutHead ==
  /\ pc = "checkout"
  /\ \E r \in CheckoutBranch(remote_exists, branch, dirty, untracked) :
       /\ calls' = calls \o r.calls
       /\ dirty' = r.dirty
       /\ untracked' = r.untracked
       /\ IF r.ok THEN pc' = "detect" /\ Running
                  ELSE Exit(1, "GitCommandError")
  /\ UNCHANGED <<run, remoteRefs, prev, fork_pr, base_source, base, branch_prefix,
                 branch_suffix, head, branch, remote_exists, pull_request, raised>>

(* --------------------------- change detection -------------------------- *)
\* the comparison slipped to >= 0: every tree counts as changed
HasChangesAlways(d, u) == d \/ Cardinality(u) >= 0

\* repo.is_dirty() or len(repo.untracked_files) > 0
HasChanges(d, u) == d \/ Cardinality(u) > 0

ChangeDetection ==
  /\ pc = "detect"
  /\ IF HasChanges(dirty, untracked)
     THEN pc' = "push" /\ Running
     ELSE Exit(0, "no_changes")
  /\ UNCHANGED <<run, remoteRefs, prev, dirty, untracked, fork_pr, base_source, base,
                 branch_prefix, branch_suffix, head, branch, remote_exists, calls,
                 pull_request, raised>>

(* ------------------------------ publish -------------------------------- *)
\* a failing push is swallowed: the pull request is created all the same
PushChangesSwallowing ==
  /\ pc = "push"
  /\ \E pushed \in BOOLEAN :
       IF pushed
       THEN /\ calls' = calls \o <<Git("add"), Git("commit"), Call("push", branch, <<>>)>>
            /\ remoteRefs' = remoteRefs \cup {branch}
       ELSE /\ calls' = calls \o <<Git("add"), Git("commit")>>
            /\ UNCHANGED remoteRefs
  /\ pc' = "create_pull"
  /\ Running
  /\ dirty' = FALSE
  /\ untracked' = {}
  /\ UNCHANGED <<run, prev, fork_pr, base_source, base, branch_prefix, branch_suffix,
                 head, branch, remote_exists, pull_request, raised>>

\* push_changes: add, commit and force-push HEAD to refs/heads/<branch>
PushChanges ==
  /\ pc = "push"
  /\ \E pushed \in BOOLEAN :
       IF pushed
       THEN /\ calls' = calls \o <<Git("add"), Git("commit"), Call("push", branch, <<>>)>>
            /\ remoteRefs' = remoteRefs \cup {branch}
            /\ pc' = "create_pull"
            /\ Running
       ELSE /\ calls' = calls \o <<Git("add"), Git("commit")>>
            /\ Exit(1, "GitCommandError")
            /\ UNCHANGED remoteRefs
  /\ dirty' = FALSE
  /\ untracked' = {}
  /\ UNCHANGED <<run, prev, fork_pr, base_source, base, branch_prefix, branch_suffix,
                 head, branch, remote_exists, pull_request, raised>>

\* the open pull requests get_pulls(state="open", base, head) can return
OpenPulls == {<<>>, <<"existing">>, <<"existing", "stale">>}

\* create_pull and, on status 422, get_pulls(...)[0]; then the outputs are set
CreatePullRequest(res, open) ==
  IF res \in Success
  THEN /\ calls' = calls \o <<Call("create_pull", branch, base)>>
       /\ pull_request' = "created"
       /\ pc' = "labels"
       /\ Running
       /\ UNCHANGED raised
  ELSE IF res = Unprocessable
  THEN /\ calls' = calls \o <<Call("create_pull", branch, base), Call("get_pulls", branch, base)>>
       /\ raised' = [by |-> "create_pull", status |-> res]
       /\ IF open = <<>>
          THEN Exit(1, "IndexError") /\ UNCHANGED pull_request
          ELSE pull_request' = open[1] /\ pc' = "labels" /\ Running
  ELSE /\ calls' = calls \o <<Call("create_pull", branch, base)>>
       /\ raised' = [by |-> "create_pull", status |-> res]
       /\ Exit(1, "api_error")
       /\ UNCHANGED pull_request

CreatePull ==
  /\ pc = "create_pull"
  /\ \E res \in ApiResults, open \in OpenPulls : CreatePullRequest(res, open)
  /\ UNCHANGED <<run, remoteRefs, prev, dirty, untracked, fork_pr, base_source, base,
                 branch_prefix, branch_suffix, head, branch, remote_exists>>

MetadataFrame ==
  UNCHANGED <<run, remoteRefs, prev, dirty, untracked, fork_pr, base_source, base,
              branch_prefix, branch_suffix, head, branch, remote_exists, calls,
              pull_request>>

\* the statement after a metadata step; the script ends after the last one
Proceed(nxt) == IF nxt = "done" THEN Exit(0, "done") ELSE pc' = nxt /\ Running

\* a metadata call outside any try: a GithubException ends the run
Unhandled(step, nxt, configured, res) ==
  IF ~configured \/ res \in Success
  THEN Proceed(nxt) /\ UNCHANGED raised
  ELSE /\ raised' = [by |-> step, status |-> res]
       /\ Exit(1, "GithubException")

\* the handler re-raises: status 422 ends the run like any other status
HandledReraising(step, nxt, configured, res, detail) ==
  IF ~configured \/ res \in Success
  THEN Proceed(nxt) /\ UNCHANGED raised
  ELSE /\ raised' = [by |-> step, status |-> res]
       /\ Exit(1, "GithubException")

\* a metadata call inside try/except GithubException: on status 422 a field
\* of e.data is printed (detail: the field is there), every other status is
\* dropped without a word
Handled(step, nxt, configured, res, detail) ==
  IF ~configured \/ res \in Success
  THEN Proceed(nxt) /\ UNCHANGED raised
  ELSE /\ raised' = [by |-> step, status |-> res]
       /\ IF res = Unprocessable /\ ~detail
          THEN Exit(1, "KeyError")
          ELSE Proceed(nxt)

ApplyLabels ==
  /\ pc = "labels"
  /\ \E configured \in BOOLEAN, res \in ApiResults :
       Unhandled("labels", "assignees", configured, res)
  /\ MetadataFrame

ApplyAssignees ==
  /\ pc = "assignees"
  /\ \E configured \in BOOLEAN, res \in ApiResults :
       Unhandled("assignees", "milestone", configured, res)
  /\ MetadataFrame

\* int(pull_request_milestone), get_milestone and edit
ApplyMilestone ==
  /\ pc = "milestone"
  /\ \E configured \in BOOLEAN, numeric \in BOOLEAN, res \in ApiResults :
       IF configured /\ ~numeric
       THEN Exit(1, "ValueError") /\ UNCHANGED raised
       ELSE Unhandled("milestone", "reviewers", configured, res)
  /\ MetadataFrame

RequestReviewers ==
  /\ pc = "reviewers"
  /\ \E configured \in BOOLEAN, res \in ApiResults, detail \in BOOLEAN :
       Handled("reviewers", "team_reviewers", configured, res, detail)
  /\ MetadataFrame

RequestTeamReviewers ==
  /\ pc = "team_reviewers"
  /\ \E configured \in BOOLEAN, res \in ApiResults :
       Unhandled("team_reviewers", "project_card", configured, res)
  /\ MetadataFrame

\* create_project_card, when PROJECT_NAME and PROJECT_COLUMN_NAME are both set
CreateProjectCard ==
  /\ pc = "project_card"
  /\ \E configured \in BOOLEAN, res \in ApiResults, detail \in BOOLEAN :
       Handled("project_card", "done", configured, res, detail)
  /\ MetadataFrame

(* ------------------------------ next run ------------------------------- *)
\* the process is gone: of this run only the remote's branches remain
EndRun ==
  /\ pc = "exit"
  /\ run + 1 \in Runs
  /\ pc' = "idle"
  /\ prev' = IF branch_suffix = "short-commit-hash" /\ "push" \in Ops(calls)
             THEN [prefix |-> branch_prefix, head |-> head, branch |-> branch]
             ELSE NoRun
  /\ fork_pr' = FALSE
  /\ base_source' = None
  /\ base' = <<>>
  /\ branch_prefix' = <<>>
  /\ branch_suffix' = None
  /\ head' = <<>>
  /\ branch' = <<>>
  /\ remote_exists' = FALSE
  /\ calls' = <<>>
  /\ pull_request' = None
  /\ raised' = NoError
  /\ exit_code' = Unset
  /\ message' = None
  /\ dirty' = FALSE
  /\ untracked' = {}
  /\ UNCHANGED <<run, remoteRefs>>

\* the workflow is triggered again, on a fresh checkout of the repository
\* in which earlier steps of the workflow may have changed files
NewRun ==
  /\ pc = "idle"
  /\ run' = run + 1
  /\ pc' = "start"
  /\ branch_prefix' \in Prefixes
  /\ branch_suffix' \in SuffixStrategies
  /\ dirty' \in BOOLEAN
  /\ untracked' \in SUBSET Files
  /\ UNCHANGED <<remoteRefs, prev, fork_pr, base_source, base, head, branch,
                 remote_exists, calls, pull_request, raised, exit_code, message>>

Next ==
  \/ BaseResolution
  \/ SelfReferenceGuard
  \/ BranchNameResolution
  \/ CollisionPolicy
  \/ CheckoutHead
  \/ ChangeDetection
  \/ PushChanges
  \/ CreatePull
  \/ ApplyLabels
  \/ ApplyAssignees
  \/ ApplyMilestone
  \/ RequestReviewers
  \/ RequestTeamReviewers
  \/ CreateProjectCard
  \/ EndRun
  \/ NewRun

Spec == Init /\ [][Next]_vars

(* ======================== properties of the script ====================== *)
PublishOps == {"add", "commit", "push", "create_pull", "get_pulls"}
ApiOps == {"create_pull", "get_pulls"}
MetadataSteps == {"labels", "assignees", "milestone", "reviewers", "team_reviewers",
                  "project_card"}
ValidStrategies == {"short-commit-hash", "timestamp", "random", "none"}

\* no commit, no push and no hosting-API call has been made in this run
NoPublish ==
  /\ Ops(calls) \cap PublishOps = {}
  /\ pull_request = None
  /\ raised = NoError
  /\ pc \notin {"create_pull"} \cup MetadataSteps

\* the head branch has not been checked out, and nothing was published
NoHeadWork ==
  /\ NoPublish
  /\ \A i \in 1..Len(calls) :
       calls[i].op \in {"checkout", "checkout_b"} => calls[i].branch # branch

Exited(code) == pc = "exit" /\ exit_code = Some(code)

\* C1: a run that reaches change detection with no modified tracked file
\* and no untracked file ends there with exit code 0: the publish step is
\* not entered, and no commit, push or hosting-API call is made.
C1_CleanTreeNeverPublishes ==
  [][(pc = "detect" /\ ~dirty /\ untracked = {})
       => /\ pc' = "exit"
          /\ exit_code' = Some(0)
          /\ calls' = calls
          /\ remoteRefs' = remoteRefs
          /\ pull_request' = None
          /\ raised' = NoError]_vars

C1_Witness ==
  /\ Exited(0)
  /\ message = "no_changes"
  /\ ~dirty /\ untracked = {}
  /\ \E i \in 1..Len(calls) : calls[i].op \in {"checkout", "checkout_b"} /\ calls[i].branch = branch

\* C2 (as stated): a pull-request trigger from a fork ends with exit code 0
\* and not one external call, whatever PULL_REQUEST_BASE is.  (Runs in which
\* a git command fails are left aside, in the claim's favour.)
C2_ForkMakesNoCalls ==
  (fork_pr /\ message # "GitCommandError")
    => /\ calls = <<>>
       /\ NoPublish
       /\ pc = "exit" => exit_code = Some(0)

\* C3 (as stated): when the resolved base starts with the branch prefix the
\* run exits with code 0 and no stash, checkout, commit, push or API call
\* has been made, on every path that resolved the base.  (Runs in which a
\* git command fails are left aside, in the claim's favour.)
C3_SelfReferenceBeforeMutation ==
  (base_source # None /\ StartsWith(base, branch_prefix) /\ message # "GitCommandError")
    => /\ calls = <<>>
       /\ NoPublish
       /\ pc \in {"guard", "exit"}
       /\ pc = "exit" => exit_code = Some(0)

\* C4: when the resolved head branch exists on the remote, short-commit-hash
\* ends the run with exit code 0, timestamp and random end it with exit code
\* 1, both without checking out the head branch, committing, pushing or
\* calling the API; only none goes on to check out the existing branch.  A
\* second short-commit-hash run on the HEAD commit and prefix of a first run
\* that pushed its branch resolves the same name and publishes nothing.
C4_CollisionPolicy ==
  /\ (remote_exists /\ branch_suffix = "short-commit-hash") => (Exited(0) /\ NoHeadWork)
  /\ (remote_exists /\ branch_suffix \in {"timestamp", "random"}) => (Exited(1) /\ NoHeadWork)
  /\ (remote_exists /\ pc # "checkout" /\ branch_suffix \notin {"short-commit-hash", "timestamp", "random"})
       => /\ branch_suffix = "none"
          /\ \E i \in 1..Len(calls) : calls[i] = Call("checkout", branch, <<>>)
  /\ (/\ run = 2 /\ prev # NoRun /\ branch_suffix = "short-commit-hash"
      /\ branch_prefix = prev.prefix /\ head = prev.head)
       => /\ branch = prev.branch
          /\ branch \in remoteRefs
          /\ pc \in {"remote", "exit"}
          /\ pc = "exit" => exit_code = Some(0)
          /\ NoHeadWork

C4_Witness ==
  /\ run = 2 /\ prev # NoRun /\ branch_suffix = "short-commit-hash"
  /\ branch_prefix = prev.prefix /\ head = prev.head
  /\ remote_exists
  /\ Exited(0) /\ message = "exists_for_commit"

\* C5 (as stated): whenever create_pull fails with status 422 the run reuses
\* the open pull request of the head/base pair and goes on; it does not fail.
C5_ConflictReusesPullRequest ==
  (raised.by = "create_pull" /\ raised.status = Unprocessable)
    => /\ pull_request = "existing"
       /\ pc # "exit"

C7_OtherErrorsAreFatal ==
  (raised # NoError /\ raised.status # Unprocessable) => Exited(1)

\* C8 (as stated): a run whose BRANCH_SUFFIX is not a known strategy ends
\* with exit code 1, whatever the trigger, ref and base.
C8_BadSuffixAlwaysFatal ==
  (pc = "exit" /\ branch_suffix \notin ValidStrategies) => exit_code = Some(1)

\* C8 (amended): a run whose BRANCH_SUFFIX is not a known strategy never gets
\* past suffix selection: it makes no head-branch checkout, commit, push or
\* API call, and it ends with exit code 1 unless base resolution or the
\* self-reference guard ended it first with exit code 0 (fork, unsupported
\* ref, base created by this action).
C8_BadSuffixFatalAtSelection ==
  (pc # "idle" /\ branch_suffix \notin ValidStrategies)
    => /\ pc \in {"start", "guard", "suffix", "exit"}
       /\ NoPublish
       /\ \A i \in 1..Len(calls) : calls[i].op = "checkout" => calls[i].branch = base
       /\ "checkout_b" \notin Ops(calls)
       /\ pc = "exit" =>
            \/ exit_code = Some(0) /\ message \in {"fork", "invalid_ref", "self_reference"}
            \/ exit_code = Some(1) /\ message \in {"bad_suffix", "GitCommandError"}

C8_Witness ==
  /\ Exited(1)
  /\ message = "bad_suffix"
  /\ branch_suffix \notin ValidStrategies

\* C9: a run pushes at most once and calls create_pull at most once, every
\* hosting-API call comes after the completed push, and a run that has not
\* pushed has made no hosting-API call.
C9_OnePushOneCreate ==
  /\ Count(calls, "push") <= 1
  /\ Count(calls, "create_pull") <= 1
  /\ \A i \in 1..Len(calls) :
       calls[i].op \in ApiOps => \E j \in 1..(i - 1) : calls[j].op = "push"
  /\ (pull_request # None \/ raised # NoError \/ pc \in {"create_pull"} \cup MetadataSteps)
       => "push" \in Ops(calls)

C9_Witness ==
  /\ Count(calls, "push") = 1
  /\ Count(calls, "create_pull") = 1
  /\ "get_pulls" \in Ops(calls)
  /\ pc = "exit" /\ message = "done"

\* C10: in a run that reaches the publish step, the pushed branch, which is
\* the head of the pull request, differs from the base, and the base does not
\* start with the branch prefix.
C10_HeadDiffersFromBase ==
  (pc \in {"push", "create_pull"} \cup MetadataSteps \/ Ops(calls) \cap PublishOps # {})
    => /\ branch # base
       /\ ~StartsWith(base, branch_prefix)
       /\ \A i \in 1..Len(calls) :
            /\ calls[i].op = "push" => calls[i].branch = branch /\ calls[i].branch # base
            /\ calls[i].op \in ApiOps => calls[i].branch # calls[i].base

C10_Witness ==
  /\ "create_pull" \in Ops(calls)
  /\ base # <<>>
  /\ StartsWith(branch, base)
  /\ StartsWith(branch_prefix, base)
====
